---- MODULE Spec2Model ----
(***************************************************************************)
(* Model of the HashMap of src/hashtable.h: a vector of (key, value)       *)
(* pairs (data_) indexed by a vector of buckets (hash_table_), each bucket *)
(* a vector of positions into data_.                                       *)
(*                                                                         *)
(* Positions and bucket numbers are 0-based as in the source; a TLA+       *)
(* sequence is 1-based, so data_[p + 1] is the element at position p and   *)
(* hash_table_[b + 1] is bucket b.  An iterator is modelled by the         *)
(* position it designates; end() is the position Len(data_).               *)
(*                                                                         *)
(* The HashMap of src/HashMap.cpp (cpp_map) and the one of src/hash_map.h  *)
(* (h_map) are modelled as records of their members, by operators named    *)
(* Cpp... and H... after their member functions.                           *)
(***************************************************************************)
EXTENDS Integers, Sequences, FiniteSets, TLC

\* ---------------------------------------------------------------- bounds
NumKeys == 4
MaxValue == 1
MaxInit == 2
MaxRange == 4
MaxClears == 1
MaxSize == 3
SizeBits == 16
NumGrowKeys == 7
MaxGrow == 7
NumIndexKeys == 1

Keys == 0 .. (NumKeys - 1)
\* the keys of the runs that fill the map until the bucket count grows
GrowKeys == 0 .. (NumGrowKeys - 1)
\* the keys operator[] is called with where the three variants are compared
IndexKeys == 0 .. (NumIndexKeys - 1)
Values == 0 .. MaxValue

\* ------------------------------------------------------ program constants
kMinLoad == 3
kMinLoadFactor == 3
kMaxLoadFactor == 2

\* the largest size_t: size_t is modelled SizeBits wide
SizeMax == (2 ^ SizeBits) - 1

\* ValueType() for an integral ValueType
DefaultValue == 0

VARIABLES hash_table_, data_, ub, last, clears, cpp_map, h_map

vars == <<hash_table_, data_, ub, last, clears, cpp_map, h_map>>

\* cpp_map is a HashMap of src/HashMap.cpp, the record of its members
\* hash_table and els; h_map is a HashMap of src/hash_map.h, the record of
\* its members sz, els, indexes and hashmap.  In SpecThree both are given
\* the calls made on the map of src/hashtable.h, in SpecCpp cpp_map is run
\* on its own; in the other specifications they stay as constructed.
variants == <<cpp_map, h_map>>

\* ub tells how far the last call was defined:
\*   "none"       every step of it was defined, or read only a key outside
\*                the store;
\*   "underflow"  it popped the empty store: data_.size() is SizeMax;
\*   "wild"       it wrote outside its vectors: the map is unusable;
\*   "bad_alloc"  an allocation inside it threw std::bad_alloc.
\* No call is made on a map whose ub is not "none".

\* ---------------------------------------------------------------- helpers
Max(a, b) == IF a >= b THEN a ELSE b

MinOf(S) == CHOOSE x \in S : \A y \in S : x <= y

\* the sequence f[1], ..., f[n]
RECURSIVE SeqOf(_, _)
SeqOf(f, n) == IF n = 0 THEN << >> ELSE Append(SeqOf(f, n - 1), f[n])

\* std::hash of an integral key is the key itself
hasher(key) == key

\* size()
size(data) == Len(data)

\* end(): the iterator one past the last element
end(data) == Len(data)

\* GetTableBucket
GetTableBucket(ht, key) == hasher(key) % Len(ht)

\* The positions of a bucket that lie outside the element store.  Reading
\* data_[p] for such a p is undefined; the key read there is arbitrary.
OutOfStore(ht, data, b) ==
    {ht[b + 1][i] : i \in 1 .. Len(ht[b + 1])} \ (0 .. (Len(data) - 1))

\* The possible contents of the memory read outside the store
Garbage(ht, data, b) == [OutOfStore(ht, data, b) -> Keys]

\* data_[data_index].first
KeyAt(data, data_index, g) ==
    IF data_index < Len(data) THEN data[data_index + 1][1] ELSE g[data_index]

\* FindByTableBucket: the first position of the bucket whose key matches,
\* as the iterator data_.begin() + data_index; end() when none matches.
FindByTableBucket(ht, data, key_bucket, key, g) ==
    LET bucket == ht[key_bucket + 1]
        hits == {i \in 1 .. Len(bucket) : KeyAt(data, bucket[i], g) = key}
    IN  IF hits = {} THEN end(data) ELSE bucket[MinOf(hits)]

\* The loop of RehashIfNecessary over a fresh table of new_size buckets
RECURSIVE Fill(_, _, _, _)
Fill(data, new_size, b, ind) ==
    IF ind = 0 THEN << >>
    ELSE IF hasher(data[ind][1]) % new_size = b
         THEN Append(Fill(data, new_size, b, ind - 1), ind - 1)
         ELSE Fill(data, new_size, b, ind - 1)

Rebuild(data, new_size) ==
    SeqOf([b \in 1 .. new_size |-> Fill(data, new_size, b - 1, Len(data))],
          new_size)

\* RehashIfNecessary: the table it leaves and the bool it returns
RehashIfNecessary(ht, data) ==
    IF Len(ht) = 0 /\ Len(data) = 0
    THEN [table |-> SeqOf([b \in 1 .. kMinLoad |-> << >>], kMinLoad),
          rehashed |-> TRUE]
    ELSE IF Len(ht) * kMaxLoadFactor < Len(data)
            \/ Len(data) * kMinLoadFactor < Len(ht)
         THEN LET new_size == Max(Len(data), kMinLoad)
              IN  IF Len(ht) = new_size
                  THEN [table |-> ht, rehashed |-> FALSE]
                  ELSE [table |-> Rebuild(data, new_size), rehashed |-> TRUE]
         ELSE [table |-> ht, rehashed |-> FALSE]

\* HashMap(Iter begin, Iter end) and HashMap(initializer_list): every pair
\* of the source is pushed to data_, then the table is built.  The empty
\* source gives the state of the default constructor HashMap().
Construct(source) ==
    [data |-> SeqOf(source, Len(source)),
     table |-> RehashIfNecessary(<< >>, SeqOf(source, Len(source))).table]

Sources == UNION {[1 .. n -> Keys \X Values] : n \in 0 .. MaxInit}

\* What the last call gave back: the value or position it returned (0 for a
\* void call), whether it threw std::out_of_range, and whether it wrote
\* through the end() iterator of a bucket.
Result(ret, threw, wrote_end) ==
    [ret |-> ret, threw |-> threw, wrote_end |-> wrote_end]

Void == Result(0, FALSE, FALSE)

\* ------------------------------------------------- the other two variants
\* a rehash() that lets the table be as small as the store
CppRehashLate(hash_table, els) ==
    IF Len(hash_table) < Len(els) \/ Len(els) * 4 + 1 < Len(hash_table)
    THEN Rebuild(els, Len(els) * 2 + 1)
    ELSE hash_table

\* rehash(): the loop is the one of RehashIfNecessary, over 2n+1 buckets
CppRehash(hash_table, els) ==
    IF Len(hash_table) <= Len(els) \/ Len(els) * 4 + 1 < Len(hash_table)
    THEN Rebuild(els, Len(els) * 2 + 1)
    ELSE hash_table

\* HashMap(const Hash&) of src/HashMap.cpp: rehash() on the empty map gives
\* one bucket
CppConstruct == [hash_table |-> CppRehash(<< >>, << >>), els |-> << >>]

\* HashMap(const Hash&) of src/hash_map.h: sz = 0, els = 0, no bucket
HConstruct == [sz |-> 0, els |-> 0, indexes |-> << >>, hashmap |-> << >>]

VariantsConstructed == cpp_map = CppConstruct /\ h_map = HConstruct

\* ------------------------------------------------------------------ Init
Init ==
    \E source \in Sources :
        /\ data_ = Construct(source).data
        /\ hash_table_ = Construct(source).table
        /\ ub = "none"
        /\ last = Void
        /\ clears = 0
        /\ VariantsConstructed

\* Construction from a range of up to MaxRange pairs with pairwise
\* different keys, all of them with the default value
RangeSources ==
    {source \in UNION {[1 .. n -> Keys \X {DefaultValue}] : n \in 0 .. MaxRange} :
        \A i, j \in DOMAIN source : source[i][1] = source[j][1] => i = j}

InitRange ==
    \E source \in RangeSources :
        /\ data_ = Construct(source).data
        /\ hash_table_ = Construct(source).table
        /\ ub = "none"
        /\ last = Void
        /\ clears = 0
        /\ VariantsConstructed

InitEmpty ==
    /\ data_ = Construct(<< >>).data
    /\ hash_table_ = Construct(<< >>).table
    /\ ub = "none"
    /\ last = Void
    /\ clears = 0
    /\ VariantsConstructed

\* ---------------------------------------------------------------- insert
\* an insert that puts the new element at the front of the store
InsertIntoFront(ht, data, key, val, g) ==
    LET table_element_bucket == GetTableBucket(ht, key)
        element_iterator ==
            FindByTableBucket(ht, data, table_element_bucket, key, g)
    IN  IF element_iterator # end(data)
        THEN [table |-> ht, data |-> data]
        ELSE LET data1 == <<<<key, val>>>> \o data
             IN  [table |-> Rebuild(data1, Len(ht)), data |-> data1]

\* The body of insert on a table and a store: what it leaves behind
InsertInto(ht, data, key, val, g) ==
    LET table_element_bucket == GetTableBucket(ht, key)
        element_iterator ==
            FindByTableBucket(ht, data, table_element_bucket, key, g)
    IN  IF element_iterator # end(data)
        THEN [table |-> ht, data |-> data]
        ELSE LET table1 == [ht EXCEPT ![table_element_bucket + 1] =
                               Append(@, size(data))]
                 data1 == Append(data, <<key, val>>)
             IN  [table |-> RehashIfNecessary(table1, data1).table,
                  data |-> data1]

insert(key, val) ==
    /\ ub = "none"
    /\ \E g \in Garbage(hash_table_, data_,
                        GetTableBucket(hash_table_, key)) :
        LET after == InsertInto(hash_table_, data_, key, val, g)
        IN  /\ data_' = after.data
            /\ hash_table_' = after.table
    /\ last' = Void
    /\ UNCHANGED <<ub, clears>>

\* ----------------------------------------------------------------- clear
clear ==
    /\ ub = "none"
    /\ clears' = clears + 1
    /\ data_' = << >>
    /\ hash_table_' = RehashIfNecessary(hash_table_, << >>).table
    /\ ub' = "none"
    /\ last' = Void

\* ----------------------------------------------------------------- erase
\* std::find(bucket.begin(), bucket.end(), value): the 1-based index of the
\* first entry equal to value, 0 for the end() iterator
StdFind(bucket, value) ==
    LET hits == {i \in 1 .. Len(bucket) : bucket[i] = value}
    IN  IF hits = {} THEN 0 ELSE MinOf(hits)

\* an erase that leaves the entry in the bucket
EraseAtKept(bucket, i) == bucket

\* vector::erase(iterator)
EraseAt(bucket, i) ==
    SubSeq(bucket, 1, i - 1) \o SubSeq(bucket, i + 1, Len(bucket))

\* std::swap(data_[key_data_position], data_.back()); data_.pop_back();
\* A key_data_position outside the store designates a slot of the spare
\* capacity: the last element is moved out to it and dropped.
SwapAndPop(data, key_data_position) ==
    IF key_data_position < Len(data)
    THEN SubSeq([data EXCEPT ![key_data_position + 1] = data[Len(data)]],
                1, Len(data) - 1)
    ELSE SubSeq(data, 1, Len(data) - 1)

Outcome(table, data, u, wrote_end) ==
    [table |-> table, data |-> data, ub |-> u, wrote_end |-> wrote_end]

\* The body of erase on a table and a store: the outcomes it can have
EraseFrom(ht, data, key, g) ==
    LET key_bucket == GetTableBucket(ht, key)
        key_iterator == FindByTableBucket(ht, data, key_bucket, key, g)
    IN  IF key_iterator = end(data)
        THEN {Outcome(ht, data, "none", FALSE)}
        ELSE
        LET key_data_position == key_iterator
            bucket_key_position ==
                StdFind(ht[key_bucket + 1], key_data_position)
            table1 == [ht EXCEPT ![key_bucket + 1] =
                          EraseAt(@, bucket_key_position)]
        IN  IF Len(data) = 0
            THEN \* data_.back() and data_.pop_back() on the empty store:
                 \* size() wraps around to SizeMax, the rehash clears the
                 \* table and its resize(SizeMax) throws std::length_error
                 {Outcome(<< >>, data, "underflow", FALSE)}
            ELSE
            LET last_element_bucket ==
                    GetTableBucket(ht, data[Len(data)][1])
                data1 == SwapAndPop(data, key_data_position)
                last_element_bucket_position ==
                    StdFind(table1[last_element_bucket + 1], size(data1))
                table2 == [table1 EXCEPT
                              ![last_element_bucket + 1]
                              [last_element_bucket_position] =
                                  key_data_position]
            IN  IF last_element_bucket_position # 0
                THEN {Outcome(RehashIfNecessary(table2, data1).table, data1,
                              "none", FALSE)}
                          \cup (IF key_data_position > Len(data)
                                THEN {Outcome(ht, data, "wild", FALSE)}
                                ELSE {})
                ELSE IF last_element_bucket = key_bucket
                THEN \* *end() = key_data_position on the bucket an entry
                     \* was just erased from: the write lands in the spare
                     \* capacity of that vector
                     {Outcome(RehashIfNecessary(table1, data1).table, data1,
                              "none", TRUE)}
                ELSE \* *end() of a bucket that may have no spare capacity
                     {Outcome(ht, data, "wild", TRUE)}

erase(key) ==
    /\ ub = "none"
    /\ \E g \in Garbage(hash_table_, data_,
                        GetTableBucket(hash_table_, key)) :
        \E after \in EraseFrom(hash_table_, data_, key, g) :
            /\ data_' = after.data
            /\ hash_table_' = after.table
            /\ ub' = after.ub
            /\ last' = Result(0, FALSE, after.wrote_end)
    /\ UNCHANGED clears

\* ------------------------------------------------------------ operator[]
Index(key) ==
    /\ ub = "none"
    /\ UNCHANGED clears
    /\ LET table_key_bucket == GetTableBucket(hash_table_, key)
       IN  \E g \in Garbage(hash_table_, data_, table_key_bucket) :
            LET key_iterator ==
                    FindByTableBucket(hash_table_, data_,
                                      table_key_bucket, key, g)
            IN  IF key_iterator # end(data_)
                THEN /\ UNCHANGED <<hash_table_, data_, ub>>
                     /\ last' = Result(key_iterator, FALSE, FALSE)
                ELSE LET table1 == [hash_table_ EXCEPT
                                      ![table_key_bucket + 1] =
                                          Append(@, size(data_))]
                         last_element_index == size(data_)
                         data1 == Append(data_, <<key, DefaultValue>>)
                         rehash == RehashIfNecessary(table1, data1)
                         \* find(key) on the rebuilt table reads no
                         \* position outside the store
                         found == FindByTableBucket(rehash.table, data1,
                                      GetTableBucket(rehash.table, key), key,
                                      << >>)
                     IN  /\ data_' = data1
                         /\ hash_table_' = rehash.table
                         /\ ub' = "none"
                         /\ last' = Result(IF rehash.rehashed THEN found
                                           ELSE last_element_index,
                                           FALSE, FALSE)

\* ------------------------------------------------------------------ find
find(key) ==
    /\ ub = "none"
    /\ UNCHANGED clears
    /\ LET key_bucket == GetTableBucket(hash_table_, key)
       IN  \E g \in Garbage(hash_table_, data_, key_bucket) :
            /\ UNCHANGED <<hash_table_, data_, ub>>
            /\ last' = Result(FindByTableBucket(hash_table_, data_,
                                                key_bucket, key, g),
                              FALSE, FALSE)

\* -------------------------------------------------------------------- at
at(key) ==
    /\ ub = "none"
    /\ UNCHANGED clears
    /\ LET key_bucket == GetTableBucket(hash_table_, key)
       IN  \E g \in Garbage(hash_table_, data_, key_bucket) :
            LET key_iterator ==
                    FindByTableBucket(hash_table_, data_, key_bucket, key, g)
            IN  /\ UNCHANGED <<hash_table_, data_, ub>>
                /\ IF key_iterator = end(data_)
                   THEN last' = Result(0, TRUE, FALSE)
                   ELSE IF key_iterator < end(data_)
                   THEN last' = Result(data_[key_iterator + 1][2], FALSE, FALSE)
                   ELSE \* key_iterator->second outside the store
                        \E value \in Values :
                            last' = Result(value, FALSE, FALSE)

\* The calls a client can make; the store is kept within MaxSize elements
\* and clear() is called at most MaxClears times.
Next ==
    \/ \E key \in Keys, val \in Values :
           size(data_) < MaxSize /\ insert(key, val) /\ UNCHANGED variants
    \/ \E key \in Keys : erase(key) /\ UNCHANGED variants
    \/ \E key \in Keys :
           size(data_) < MaxSize /\ Index(key) /\ UNCHANGED variants
    \/ \E key \in Keys : find(key) /\ UNCHANGED variants
    \/ \E key \in Keys : at(key) /\ UNCHANGED variants
    \/ clears < MaxClears /\ clear /\ UNCHANGED variants

Spec == Init /\ [][Next]_vars

SpecEmpty == InitEmpty /\ [][Next]_vars

SpecRange == InitRange /\ [][Next]_vars

\* insert and erase calls alone, on a store of up to MaxGrow elements
NextInsertErase ==
    \/ \E key \in GrowKeys :
           /\ size(data_) < MaxGrow /\ insert(key, DefaultValue)
           /\ UNCHANGED variants
    \/ \E key \in GrowKeys : erase(key) /\ UNCHANGED variants

SpecInsertErase == InitEmpty /\ [][NextInsertErase]_vars

\* find, at, insert and operator[] calls alone, on a store of up to MaxGrow
\* elements
NextNoErase ==
    \/ \E key \in GrowKeys :
           /\ size(data_) < MaxGrow /\ insert(key, DefaultValue)
           /\ UNCHANGED variants
    \/ \E key \in Keys :
           size(data_) < MaxGrow /\ Index(key) /\ UNCHANGED variants
    \/ \E key \in Keys : find(key) /\ UNCHANGED variants
    \/ \E key \in Keys : at(key) /\ UNCHANGED variants

SpecNoErase == InitEmpty /\ [][NextNoErase]_vars

\* ------------------------------------------------------ src/HashMap.cpp
\* find(key): the position of the first element of the bucket with the key,
\* els.size() for end()
CppFind(m, key) ==
    LET index == hasher(key) % Len(m.hash_table)
        bucket == m.hash_table[index + 1]
        hits == {i \in 1 .. Len(bucket) : m.els[bucket[i] + 1][1] = key}
    IN  IF hits = {} THEN Len(m.els) ELSE bucket[MinOf(hits)]

CppInsert(m, elem) ==
    IF CppFind(m, elem[1]) # Len(m.els)
    THEN m
    ELSE LET index == hasher(elem[1]) % Len(m.hash_table)
             table1 == [m.hash_table EXCEPT ![index + 1] =
                           Append(@, Len(m.els))]
             els1 == Append(m.els, elem)
         IN  [hash_table |-> CppRehash(table1, els1), els |-> els1]

\* for (auto& el : hash_table[hsh]) if (el + 1 == els.size()) el = id;
CppReindex(bucket, n, id) ==
    SeqOf([i \in 1 .. Len(bucket) |->
              IF bucket[i] + 1 = n THEN id ELSE bucket[i]], Len(bucket))

\* an erase that closes the gap by shifting the elements behind it
CppEraseShift(m, key) ==
    LET id == CppFind(m, key)
    IN  IF id = Len(m.els)
        THEN m
        ELSE LET els1 == SubSeq(m.els, 1, id) \o
                         SubSeq(m.els, id + 2, Len(m.els))
             IN  [hash_table |-> Rebuild(els1, Len(els1) * 2 + 1),
                  els |-> els1]

CppErase(m, key) ==
    LET id == CppFind(m, key)
    IN  IF id = Len(m.els)
        THEN m
        ELSE LET index == hasher(key) % Len(m.hash_table)
                 table1 == [m.hash_table EXCEPT ![index + 1] =
                               EraseAt(@, StdFind(@, id))]
                 hsh == hasher(m.els[Len(m.els)][1]) % Len(m.hash_table)
                 table2 == [table1 EXCEPT ![hsh + 1] =
                               CppReindex(@, Len(m.els), id)]
                 els1 == SwapAndPop(m.els, id)
             IN  [hash_table |-> CppRehash(table2, els1), els |-> els1]

\* operator[]: insert and one more rehash() when the key is absent
CppIndex(m, key) ==
    IF CppFind(m, key) = Len(m.els)
    THEN LET inserted == CppInsert(m, <<key, DefaultValue>>)
         IN  [inserted EXCEPT
                 !.hash_table = CppRehash(@, inserted.els)]
    ELSE m

CppClear(m) == [hash_table |-> CppRehash(m.hash_table, << >>), els |-> << >>]

\* ------------------------------------------------------- src/hash_map.h
\* find(key): the position of the first element of the bucket with the key,
\* hashmap.size() for end()
HFind(m, key) ==
    IF m.sz = 0
    THEN Len(m.hashmap)
    ELSE LET pos == hasher(key) % m.sz
             bucket == m.indexes[pos + 1]
             hits == {i \in 1 .. Len(bucket) :
                         m.hashmap[bucket[i] + 1][1] = key}
         IN  IF hits = {} THEN Len(m.hashmap) ELSE bucket[MinOf(hits)]

RECURSIVE HInsert(_, _)

\* for (auto i : tmp) insert(i);
RECURSIVE HInsertEach(_, _)
HInsertEach(m, tmp) ==
    IF Len(tmp) = 0 THEN m
    ELSE HInsert(HInsertEach(m, SubSeq(tmp, 1, Len(tmp) - 1)),
                 tmp[Len(tmp)])

\* rebuild(), called with sz already raised
HRebuild(m) ==
    HInsertEach([sz |-> m.sz, els |-> 0,
                 indexes |-> SeqOf([b \in 1 .. m.sz |-> << >>], m.sz),
                 hashmap |-> << >>],
                m.hashmap)

HInsert(m, x) ==
    IF HFind(m, x[1]) # Len(m.hashmap)
    THEN m
    ELSE LET m1 == IF m.els + 1 > m.sz
                   THEN HRebuild([m EXCEPT !.sz = m.sz * 2 + 1])
                   ELSE m
             pos == hasher(x[1]) % m1.sz
         IN  [sz |-> m1.sz,
              els |-> m1.els + 1,
              indexes |-> [m1.indexes EXCEPT ![pos + 1] =
                              Append(@, m1.els)],
              hashmap |-> Append(m1.hashmap, x)]

\* auto it = bucket.begin(); while (*it != value) ++it;  The loop has no
\* bound: it is defined only when the bucket holds the value.
HWhileNot(bucket, value) ==
    MinOf({i \in 1 .. Len(bucket) : bucket[i] = value})

HErase(m, key) ==
    IF HFind(m, key) = Len(m.hashmap)
    THEN m
    ELSE
    LET last_ == m.hashmap[Len(m.hashmap)]
        popped == SubSeq(m.hashmap, 1, Len(m.hashmap) - 1)
    IN  IF last_[1] = key
        THEN LET pos == hasher(last_[1]) % m.sz
                 els1 == m.els - 1
             IN  [sz |-> m.sz,
                  els |-> els1,
                  indexes |-> [m.indexes EXCEPT ![pos + 1] =
                                  EraseAt(@, HWhileNot(@, els1))],
                  hashmap |-> popped]
        ELSE LET pos_ == hasher(last_[1]) % m.sz
                 pos == hasher(key) % m.sz
                 \* for (auto i : indexes[pos])
                 \*     if (hashmap[i].first == key) good = i;
                 found == {i \in 1 .. Len(m.indexes[pos + 1]) :
                              m.hashmap[m.indexes[pos + 1][i] + 1][1] = key}
                 good == IF found = {} THEN 0
                         ELSE m.indexes[pos + 1]
                                  [CHOOSE i \in found :
                                      \A j \in found : j <= i]
                 els1 == m.els - 1
                 indexes1 == [m.indexes EXCEPT ![pos_ + 1] =
                                 [@ EXCEPT ![HWhileNot(@, els1)] = good]]
                 indexes2 == [indexes1 EXCEPT ![pos + 1] =
                                 EraseAt(@, HWhileNot(@, good))]
             IN  [sz |-> m.sz,
                  els |-> els1,
                  indexes |-> indexes2,
                  hashmap |-> [popped EXCEPT ![good + 1] = last_]]

HIndex(m, key) ==
    IF HFind(m, key) = Len(m.hashmap)
    THEN HInsert(m, <<key, DefaultValue>>)
    ELSE m

\* --------------------------------------------- src/HashMap.cpp on its own
\* the map of src/hashtable.h, left alone where another variant is run
hashtable == <<hash_table_, data_, ub, last, clears>>

\* HashMap(Iter begin, Iter end) and HashMap(initializer_list): rehash(),
\* insert of every pair, rehash()
RECURSIVE CppInsertEach(_, _)
CppInsertEach(m, source) ==
    IF Len(source) = 0 THEN m
    ELSE CppInsert(CppInsertEach(m, SubSeq(source, 1, Len(source) - 1)),
                   source[Len(source)])

CppConstructFrom(source) ==
    LET inserted == CppInsertEach(CppConstruct, source)
    IN  [inserted EXCEPT !.hash_table = CppRehash(@, inserted.els)]

InitCpp ==
    /\ data_ = Construct(<< >>).data
    /\ hash_table_ = Construct(<< >>).table
    /\ ub = "none"
    /\ last = Void
    /\ clears = 0
    /\ h_map = HConstruct
    /\ \E source \in Sources : cpp_map = CppConstructFrom(source)

\* insert, erase, operator[] and clear calls on the map of src/HashMap.cpp,
\* kept within MaxGrow elements
NextCpp ==
    \/ \E key \in GrowKeys :
           /\ Len(cpp_map.els) < MaxGrow
           /\ cpp_map' = CppInsert(cpp_map, <<key, DefaultValue>>)
           /\ UNCHANGED <<hashtable, h_map>>
    \/ \E key \in GrowKeys :
           /\ cpp_map' = CppErase(cpp_map, key)
           /\ UNCHANGED <<hashtable, h_map>>
    \/ \E key \in IndexKeys :
           /\ Len(cpp_map.els) < MaxGrow
           /\ cpp_map' = CppIndex(cpp_map, key)
           /\ UNCHANGED <<hashtable, h_map>>
    \/ /\ cpp_map' = CppClear(cpp_map)
       /\ UNCHANGED <<hashtable, h_map>>

SpecCpp == InitCpp /\ [][NextCpp]_vars

\* ------------------------------------------------ the variants compared
\* the value given to insert where the three variants are compared;
\* operator[] stores DefaultValue
InsertedValue == MaxValue

\* The same insert, erase and operator[] calls made on the three maps
NextThree ==
    \/ \E key \in GrowKeys :
           /\ size(data_) < MaxGrow /\ insert(key, InsertedValue)
           /\ cpp_map' = CppInsert(cpp_map, <<key, InsertedValue>>)
           /\ h_map' = HInsert(h_map, <<key, InsertedValue>>)
    \/ \E key \in GrowKeys :
           /\ erase(key)
           /\ cpp_map' = CppErase(cpp_map, key)
           /\ h_map' = HErase(h_map, key)
    \/ \E key \in IndexKeys :
           /\ size(data_) < MaxGrow /\ Index(key)
           /\ cpp_map' = CppIndex(cpp_map, key)
           /\ h_map' = HIndex(h_map, key)

SpecThree == InitEmpty /\ [][NextThree]_vars

\* ---------------------------------------------------- allocation failure
\* The tables RehashIfNecessary can leave when one of its allocations
\* throws std::bad_alloc: resize() after clear() leaves no bucket at all,
\* push_back in the loop leaves the positions below ind filled in.
RehashFailures(ht, data) ==
    IF Len(ht) = 0 /\ Len(data) = 0
    THEN {ht}
    ELSE IF Len(ht) * kMaxLoadFactor < Len(data)
            \/ Len(data) * kMinLoadFactor < Len(ht)
         THEN LET new_size == Max(Len(data), kMinLoad)
              IN  IF Len(ht) = new_size
                  THEN {}
                  ELSE {<< >>} \cup
                       {Rebuild(SubSeq(data, 1, ind), new_size) :
                           ind \in 0 .. (Len(data) - 1)}
         ELSE {}

\* What insert and operator[] can leave behind when the push_back to the
\* bucket, the push_back to the store or the rehash throws std::bad_alloc
InsertFailures(ht, data, key, val, g) ==
    LET table_element_bucket == GetTableBucket(ht, key)
        element_iterator ==
            FindByTableBucket(ht, data, table_element_bucket, key, g)
    IN  IF element_iterator # end(data)
        THEN {}
        ELSE LET table1 == [ht EXCEPT ![table_element_bucket + 1] =
                               Append(@, size(data))]
                 data1 == Append(data, <<key, val>>)
             IN  {[table |-> ht, data |-> data],
                  [table |-> table1, data |-> data]}
                 \cup {[table |-> table, data |-> data1] :
                          table \in RehashFailures(table1, data1)}

Throws(key, val) ==
    /\ ub = "none"
    /\ \E g \in Garbage(hash_table_, data_,
                        GetTableBucket(hash_table_, key)) :
        \E after \in InsertFailures(hash_table_, data_, key, val, g) :
            /\ data_' = after.data
            /\ hash_table_' = after.table
    /\ ub' = "bad_alloc"
    /\ UNCHANGED clears

insertThrows(key, val) == Throws(key, val) /\ last' = Result(0, TRUE, FALSE)

IndexThrows(key) == Throws(key, DefaultValue) /\ last' = Result(1, TRUE, FALSE)

\* insert, erase and operator[] calls in which an allocation may fail; the
\* run ends at the exception
NextAlloc ==
    \/ \E key \in GrowKeys :
           /\ size(data_) < MaxGrow /\ insert(key, DefaultValue)
           /\ UNCHANGED variants
    \/ \E key \in GrowKeys : erase(key) /\ UNCHANGED variants
    \/ \E key \in GrowKeys :
           /\ size(data_) < MaxGrow /\ insertThrows(key, DefaultValue)
           /\ UNCHANGED variants
    \/ \E key \in GrowKeys :
           size(data_) < MaxGrow /\ IndexThrows(key) /\ UNCHANGED variants

SpecAlloc == InitEmpty /\ [][NextAlloc]_vars

\* ------------------------------------------------------------ vocabulary
\* size() of the map in the current state
Size == IF ub = "underflow" THEN SizeMax ELSE Len(data_)

\* the number of buckets in the current state
BucketCount == Len(hash_table_)

\* the keys of the elements of a store
KeySet(data) == {data[i][1] : i \in 1 .. Len(data)}

\* how many entries of a bucket equal the position p
Count(bucket, p) == Cardinality({i \in 1 .. Len(bucket) : bucket[i] = p})

\* no two elements of the store have the same key
KeysUnique(data) ==
    \A i, j \in 1 .. Len(data) : data[i][1] = data[j][1] => i = j

\* every position of the store is held once by the bucket of its key and
\* by no other bucket
IndexCorrect(ht, data) ==
    \A p \in 0 .. (Len(data) - 1) :
        \A b \in 0 .. (Len(ht) - 1) :
            Count(ht[b + 1], p) =
                IF b = GetTableBucket(ht, data[p + 1][1]) THEN 1 ELSE 0

\* C1: in every state reachable by construction followed by insert, erase,
\* operator[] and clear calls, every live position appears exactly once in
\* the bucket of its key and in no other bucket.
C1_IndexCorrectness == IndexCorrect(hash_table_, data_)

\* C2: starting from an empty-constructed map, no two elements of the
\* element store ever have equal keys.
C2_KeysUnique == KeysUnique(data_)

\* C5: after clear() the store is empty, there are kMinLoad buckets and
\* every bucket is empty.
C5_ClearResetsIndex ==
    [][clear =>
        /\ size(data_') = 0
        /\ Len(hash_table_') = kMinLoad
        /\ \A b \in 1 .. Len(hash_table_') : hash_table_'[b] = << >>]_vars

\* C7: every state with fewer than kMinLoad elements has exactly kMinLoad
\* buckets.
C7_FloorBucketCount == Size < kMinLoad => BucketCount = kMinLoad

\* the map obtained by inserting the pairs of source one by one into an
\* empty-constructed map
RECURSIVE InsertAll(_)
InsertAll(source) ==
    IF Len(source) = 0
    THEN [table |-> Construct(<< >>).table, data |-> << >>]
    ELSE LET before == InsertAll(SubSeq(source, 1, Len(source) - 1))
             element == source[Len(source)]
             g == CHOOSE f \in Garbage(before.table, before.data,
                      GetTableBucket(before.table, element[1])) : TRUE
         IN  InsertInto(before.table, before.data, element[1], element[2], g)

\* the pairs of source that are the first occurrence of their key
FirstOccurrences(source) ==
    {source[i] : i \in {j \in 1 .. Len(source) :
                           \A h \in 1 .. (j - 1) : source[h][1] # source[j][1]}}

\* the positions find(key) can return in a table and a store
FindResults(ht, data, key) ==
    {FindByTableBucket(ht, data, GetTableBucket(ht, key), key, g) :
        g \in Garbage(ht, data, GetTableBucket(ht, key))}

\* find(key) returns an element of the store, and that element is pair
FindsPair(ht, data, key, pair) ==
    \A it \in FindResults(ht, data, key) :
        it < Len(data) /\ data[it + 1] = pair

\* C3: a map constructed from a range or an initializer list holds what
\* inserting the pairs one by one into an empty map gives: size() is the
\* number of distinct keys of the source and the store holds exactly the
\* first occurrence of every key.
C3_ConstructIsRepeatedInsert ==
    \A source \in Sources :
        (clears = 0 /\ data_ = Construct(source).data
                    /\ hash_table_ = Construct(source).table)
        => /\ data_ = InsertAll(source).data
           /\ Size = Cardinality(KeySet(source))
           /\ {data_[i] : i \in 1 .. Len(data_)} = FirstOccurrences(source)

\* C4: in any reachable state, insert({k, v}) of a key k that is not in the
\* map makes find(k) return a position that holds (k, v) and makes size()
\* grow by exactly 1.
C4_InsertThenFind ==
    [][\A key \in Keys, val \in Values :
          (insert(key, val) /\ key \notin KeySet(data_))
          => /\ FindsPair(hash_table_', data_', key, <<key, val>>)
             /\ Size' = Size + 1]_vars

\* C6: on a map with unique keys, erase(k) of a present key k makes find(k)
\* report end(), makes size() decrease by exactly 1 and leaves every other
\* key found with its original value.
C6_EraseCompleteness ==
    [][\A key \in Keys :
          (erase(key) /\ KeysUnique(data_) /\ key \in KeySet(data_))
          => /\ ub' = "none"
             /\ FindResults(hash_table_', data_', key) = {end(data_')}
             /\ Size' = Size - 1
             /\ \A i \in 1 .. Len(data_) :
                   data_[i][1] # key
                   => FindsPair(hash_table_', data_', data_[i][1], data_[i])
      ]_vars

\* C8: after construction and after every call, whenever size() >= kMinLoad
\* neither rehash trigger holds.
C8_LoadFactorBounds ==
    Size >= kMinLoad
    => /\ BucketCount * kMaxLoadFactor >= Size
       /\ Size * kMinLoadFactor >= BucketCount

\* C9: insert({k, v}) of a key k that is already present changes neither
\* the element store, nor any bucket, nor the bucket count.
C9_InsertPresentIsNoOp ==
    [][\A key \in Keys, val \in Values :
          (insert(key, val) /\ key \in KeySet(data_))
          => UNCHANGED <<data_, hash_table_>>]_vars

\* C10: at(k) returns the value stored for k when k is present and throws
\* std::out_of_range when k is absent; it changes neither the store, nor
\* the buckets, nor the bucket count.
C10_AtReturnsOrThrows ==
    [][\A key \in Keys :
          at(key)
          => /\ UNCHANGED <<data_, hash_table_>>
             /\ IF key \in KeySet(data_)
                THEN /\ ~last'.threw
                     /\ \E i \in 1 .. Len(data_) :
                            data_[i] = <<key, last'.ret>>
                ELSE last'.threw]_vars

\* C11: operator[](k) on an absent key appends (k, default value), so that
\* size() grows by exactly 1, and returns the slot that holds k in the
\* final store, also after a rehash; on a present key it returns the slot
\* of k and changes neither the store nor the buckets.
C11_IndexReturnsSlotOfKey ==
    [][\A key \in Keys :
          Index(key)
          => /\ last'.ret < Len(data_')
             /\ data_'[last'.ret + 1][1] = key
             /\ IF key \in KeySet(data_)
                THEN UNCHANGED <<data_, hash_table_>>
                ELSE /\ Size' = Size + 1
                     /\ data_' = Append(data_, <<key, DefaultValue>>)]_vars

\* the number of positions held in all buckets of a table together
RECURSIVE TotalEntries(_)
TotalEntries(ht) ==
    IF Len(ht) = 0 THEN 0
    ELSE TotalEntries(SubSeq(ht, 1, Len(ht) - 1)) + Len(ht[Len(ht)])

\* C12: after any sequence of insert and erase calls on an initially empty
\* map, the buckets together hold size() positions and the store holds
\* exactly size() elements, at the positions 0 .. size()-1.
C12_EntriesMatchSize ==
    /\ ub = "none"
    /\ TotalEntries(hash_table_) = Size
    /\ DOMAIN data_ = 1 .. Size
    /\ \A b \in 1 .. BucketCount : \A i \in 1 .. Len(hash_table_[b]) :
           hash_table_[b][i] \in 0 .. (Size - 1)

\* erase calls brought a store that had grown to 7 buckets back to 3
\* elements
C12_Witness ==
    /\ BucketCount > kMinLoad
    /\ Size = kMinLoad
    /\ last.wrote_end

\* C13: whenever an allocation inside insert, operator[] or the rehash
\* they trigger fails, the state left behind is index-correct: the table
\* has its buckets, no bucket is emptied or half-filled and no bucket holds
\* a position the store does not have.
C13_AllocationFailureKeepsIndex ==
    ub = "bad_alloc"
    => /\ BucketCount >= kMinLoad
       /\ IndexCorrect(hash_table_, data_)
       /\ \A b \in 1 .. BucketCount : \A i \in 1 .. Len(hash_table_[b]) :
              hash_table_[b][i] < Size

\* C14: erase of the key at the last position of the store skips the
\* reindex step: erase never writes through the end() that the search for
\* the old last index returns when it finds no entry.
C14_EraseNeverWritesThroughEnd ==
    [][\A key \in GrowKeys : erase(key) => ~last'.wrote_end]_vars

\* C15: on a store with unique keys, erase(k) of a key at a position
\* p < size()-1 moves exactly one
\* element and rewrites exactly one bucket entry: the new store is the old
\* one with slot p holding the old last element and the last slot dropped,
\* and the table is what the rehash check leaves of the old table with one
\* entry p removed from the bucket of k and one entry equal to the old last
\* index turned into p.
C15_EraseMovesOneElement ==
    [][\A key \in GrowKeys : \A p \in 0 .. (Len(data_) - 2) :
          (erase(key) /\ data_[p + 1][1] = key /\ KeysUnique(data_))
          => LET old_last == Len(data_) - 1
                 key_bucket == GetTableBucket(hash_table_, key) + 1
                 last_bucket ==
                     GetTableBucket(hash_table_, data_[Len(data_)][1]) + 1
             IN  /\ Len(data_') = old_last
                 /\ \A i \in 1 .. old_last :
                        data_'[i] = IF i = p + 1 THEN data_[old_last + 1]
                                    ELSE data_[i]
                 /\ \E i \in 1 .. Len(hash_table_[key_bucket]) :
                        /\ hash_table_[key_bucket][i] = p
                        /\ LET removed == [hash_table_ EXCEPT
                                   ![key_bucket] = EraseAt(@, i)]
                           IN  \E j \in 1 .. Len(removed[last_bucket]) :
                                /\ removed[last_bucket][j] = old_last
                                /\ hash_table_' =
                                     RehashIfNecessary(
                                         [removed EXCEPT
                                            ![last_bucket][j] = p],
                                         data_').table]_vars

\* every element of the store before is at the same position of the store
\* after, with the same key and value
KeepsElements(before, after) ==
    /\ Len(before) <= Len(after)
    /\ \A i \in 1 .. Len(before) : after[i] = before[i]

\* C16: find, at, insert, operator[] and the rehash they trigger leave
\* every element of the store at its position with its key and value: a
\* call either leaves the store as it is or, when it is an insert or an
\* operator[] of key, appends one element with that key at the end, so
\* that with no erase the store lists its elements in the order in which
\* they were inserted.
C16_OnlyEraseMovesElements ==
    [][\/ data_' = data_
       \/ /\ KeepsElements(data_, data_')
          /\ Len(data_') = Len(data_) + 1
          /\ \E key \in GrowKeys :
                /\ data_'[Len(data_')][1] = key
                /\ Index(key) \/ insert(key, DefaultValue)]_vars

\* an insert made the table grow from kMinLoad buckets to one per element
C16_Witness ==
    /\ BucketCount > kMinLoad
    /\ Size = BucketCount
    /\ last = Void

\* C17: in every reachable state, after any constructor and after any
\* operation, the table has at least kMinLoad buckets, so that
\* GetTableBucket never takes a remainder modulo zero.
C17_BucketCountAtLeastMinLoad == BucketCount >= kMinLoad

\* C18: run from empty-constructed maps on the same sequence of insert,
\* erase and operator[] calls with the same hash function, the maps of
\* src/hashtable.h, src/HashMap.cpp and src/hash_map.h hold the same
\* element store after every call: the same pairs in the same order.
C18_SameElementStore ==
    /\ ub = "none"
    /\ cpp_map.els = data_
    /\ h_map.hashmap = data_
    /\ h_map.els = Size

\* after a growth and an erase call the three maps hold the same store of
\* more than kMinLoad elements, inserted by insert and by operator[], and
\* src/HashMap.cpp has another bucket count than the other two
C18_Witness ==
    /\ Size > kMinLoad
    /\ last.wrote_end
    /\ cpp_map.els = data_
    /\ h_map.hashmap = data_
    /\ \E i \in 1 .. Len(data_) : data_[i][2] # DefaultValue
    /\ \E i \in 1 .. Len(data_) : data_[i][2] = DefaultValue
    /\ BucketCount # Len(cpp_map.hash_table)
    /\ h_map.sz # Len(cpp_map.hash_table)

\* C19: in src/HashMap.cpp, after construction and after every insert,
\* erase, operator[] and clear, the bucket count m and the element count n
\* satisfy n < m <= 4n + 1; in particular m >= 1, so that find never takes
\* a remainder modulo zero.
C19_CppBucketCountBounds ==
    LET m == Len(cpp_map.hash_table)
        n == Len(cpp_map.els)
    IN  /\ n < m
        /\ m <= 4 * n + 1
        /\ m >= 1

\* erase calls left 2 elements under the 7 buckets built for 3
C19_Witness ==
    /\ Len(cpp_map.els) = 2
    /\ Len(cpp_map.hash_table) = 7

====
